---------------------------- MODULE Spec2Model ----------------------------
(***************************************************************************)
(* Particle-population engine of the Rao-Blackwellised particle filter     *)
(* (src/src/particlefilter.py): class RBPF and the part of class           *)
(* LangevinParticle that the engine drives.                                *)
(*                                                                         *)
(* Numbers.  A log-domain quantity (a log-weight, the log marginal         *)
(* likelihood, a logsumexp) is kept exactly as the logarithm of a          *)
(* non-negative rational:                                                  *)
(*     [k |-> "fin",  p |-> a, q |-> b]   log(a/b), a > 0, b > 0, reduced  *)
(*     [k |-> "ninf", ...]                -inf   (= log 0)                 *)
(*     [k |-> "pinf", ...]                +inf                             *)
(*     [k |-> "nan",  ...]                NaN                              *)
(* A linear-domain quantity (np.exp of the former) is                      *)
(*     [k |-> "num", p |-> a, q |-> b]    a/b, a >= 0, b > 0, reduced      *)
(*     [k |-> "inf", ...]  and  [k |-> "nan", ...]                         *)
(* with IEEE rules for the infinities and NaN.  Rounding of finite values  *)
(* is not modelled.                                                        *)
(*                                                                         *)
(* Objects.  Python attributes hold references.  heap maps an address to   *)
(* the object stored there; a particle is a record of four addresses       *)
(* (acc, Ccc, alpha, logweight).  copy.copy copies the addresses, an       *)
(* assignment `self.x = <expr>` binds a newly allocated object, and `+=`   *)
(* on an ndarray updates the object in place.                              *)
(***************************************************************************)
EXTENDS Integers, Sequences, FiniteSets, TLC

\* Largest particle count N the engine is constructed with.
MaxN == 2
\* Largest length of the observation series.
MaxObs == 3

----------------------------------------------------------------------------
(* Exact arithmetic on the extended log domain and the linear domain.      *)

RECURSIVE GCD(_, _)
GCD(a, b) == IF b = 0 THEN a ELSE GCD(b, a % b)

\* log(a/b) for a > 0, b > 0, in lowest terms
Fin(a, b) == LET g == GCD(a, b) IN [k |-> "fin", p |-> a \div g, q |-> b \div g]
NegInf == [k |-> "ninf", p |-> 0, q |-> 1]
PosInf == [k |-> "pinf", p |-> 1, q |-> 0]
NaN    == [k |-> "nan",  p |-> 0, q |-> 0]

\* a/b for a >= 0, b > 0, in lowest terms
Num(a, b) == LET g == GCD(a, b) IN [k |-> "num", p |-> a \div g, q |-> b \div g]
LinInf == [k |-> "inf", p |-> 1, q |-> 0]
LinNaN == [k |-> "nan", p |-> 0, q |-> 0]

\* x + y on log-domain values
LAdd(x, y) ==
    CASE x.k = "nan" \/ y.k = "nan" -> NaN
      [] x.k = "ninf" /\ y.k = "pinf" -> NaN
      [] x.k = "pinf" /\ y.k = "ninf" -> NaN
      [] x.k = "ninf" \/ y.k = "ninf" -> NegInf
      [] x.k = "pinf" \/ y.k = "pinf" -> PosInf
      [] OTHER -> \* (a/b)(c/d), cancelling across before multiplying
                  LET g == GCD(x.p, y.q)
                      h == GCD(y.p, x.q)
                  IN Fin((x.p \div g) * (y.p \div h), (x.q \div h) * (y.q \div g))

\* -x on log-domain values
LNeg(x) ==
    CASE x.k = "nan"  -> NaN
      [] x.k = "ninf" -> PosInf
      [] x.k = "pinf" -> NegInf
      [] OTHER -> Fin(x.q, x.p)

\* x - y
LSub(x, y) == LAdd(x, LNeg(y))

\* 2 * x
LDouble(x) == LAdd(x, x)

\* x < y; every comparison with NaN is false
LLess(x, y) ==
    CASE x.k = "nan" \/ y.k = "nan" -> FALSE
      [] x.k = "pinf" -> FALSE
      [] y.k = "ninf" -> FALSE
      [] x.k = "ninf" -> TRUE
      [] y.k = "pinf" -> TRUE
      [] OTHER -> \* a/b < c/d, cancelling common factors before multiplying
                  LET g == GCD(x.p, y.p)
                      h == GCD(x.q, y.q)
                  IN (x.p \div g) * (y.q \div h) < (y.p \div g) * (x.q \div h)

LLeq(x, y) == x.k # "nan" /\ y.k # "nan" /\ ~LLess(y, x)

\* np.exp
Exp(x) ==
    CASE x.k = "nan"  -> LinNaN
      [] x.k = "ninf" -> Num(0, 1)
      [] x.k = "pinf" -> LinInf
      [] OTHER -> Num(x.p, x.q)

\* np.log of a non-negative linear value
Log(v) ==
    CASE v.k = "nan" -> NaN
      [] v.k = "inf" -> PosInf
      [] v.p = 0     -> NegInf
      [] OTHER -> Fin(v.p, v.q)

\* u + v on non-negative linear values
NumAdd(u, v) ==
    CASE u.k = "nan" \/ v.k = "nan" -> LinNaN
      [] u.k = "inf" \/ v.k = "inf" -> LinInf
      [] OTHER -> \* over the least common denominator
                  LET g == GCD(u.q, v.q)
                  IN Num(u.p * (v.q \div g) + v.p * (u.q \div g), (u.q \div g) * v.q)

\* u / v on non-negative linear values (0/0 = NaN, x/0 = inf)
NumDiv(u, v) ==
    CASE u.k = "nan" \/ v.k = "nan" -> LinNaN
      [] u.k = "inf" /\ v.k = "inf" -> LinNaN
      [] u.k = "inf" -> LinInf
      [] v.k = "inf" -> Num(0, 1)
      [] v.p = 0 /\ u.p = 0 -> LinNaN
      [] v.p = 0 -> LinInf
      [] OTHER -> LET g == GCD(u.p, v.p)
                      h == GCD(u.q, v.q)
                  IN Num((u.p \div g) * (v.q \div h), (u.q \div h) * (v.p \div g))

\* np.sum of a sequence of linear values
RECURSIVE NumSum(_)
NumSum(s) == IF s = <<>> THEN Num(0, 1) ELSE NumAdd(Head(s), NumSum(Tail(s)))

\* np.max of a non-empty sequence of log-domain values (NaN propagates)
RECURSIVE LMax(_)
LMax(s) ==
    IF Len(s) = 1 THEN s[1]
    ELSE LET m == LMax(Tail(s)) IN
         CASE s[1].k = "nan" -> NaN
           [] m.k = "nan" -> NaN
           [] LLess(s[1], m) -> m
           [] OTHER -> s[1]

\* logsumexp(x): c = max(x); c + log(sum(exp(x - c)))
logsumexp(x) ==
    LET c == LMax(x)
        shifted == [i \in 1..Len(x) |-> Exp(LSub(x[i], c))]
    IN LAdd(c, Log(NumSum(shifted)))

----------------------------------------------------------------------------
(* Construction inputs.                                                    *)

\* Degeneracy thresholds epsilon = <<numerator, denominator>> in (0,1)
EpsilonValues == {<<9, 10>>}

\* data['Date_Time'] and data['Price'] of a series of n observations:
\* strictly increasing timestamps, one price per timestamp
RawTimes(n)  == [i \in 1..n |-> 10 + (i * (i + 1)) \div 2]
RawPrices(n) == [i \in 1..n |-> 100 + i * i]

\* Abstract outcomes of one particle's random draws in predict (the gamma
\* process Z and the Gaussian innovation e)
Draws == {0, 1, 2}

\* at most 4 objects per particle, and as many again while a method rebinds
Addr == 1..(8 * MaxN)

VARIABLES
    N,                        \* self.N
    nobservations,            \* self.nobservations
    log_resample_limit,       \* self.log_resample_limit
    timegen, pricegen,        \* items already taken from self.timegen / self.pricegen
    current_time, current_price,
    log_marginal_likelihood,
    particles,                \* self.particles: sequence of particle records
    heap,                     \* address -> object
    pc,                       \* "ready", or the position inside run_filter
    step,                     \* iterations completed by the latest run_filter
    outcome,                  \* how the last call on the engine ended
    result,                   \* value returned by the last completed run_filter
    phases,                   \* methods run_filter has called in its current iteration
    collapsed                 \* some iteration of the current run_filter saw all weights zero

vars == <<N, nobservations, log_resample_limit, timegen, pricegen, current_time,
          current_price, log_marginal_likelihood, particles, heap, pc, step,
          outcome, result, phases, collapsed>>

\* self.times / self.prices after the zero-basing of RBPF.__init__
times  == [i \in 1..nobservations |-> RawTimes(nobservations)[i] - RawTimes(nobservations)[1]]
prices == [i \in 1..nobservations |-> RawPrices(nobservations)[i] - RawPrices(nobservations)[1]]

----------------------------------------------------------------------------
(* Objects.                                                                *)

FreeCell == [kind |-> "free", hist |-> <<>>, w |-> NaN]
\* an ndarray holding Kalman state (acc, Ccc or alpha): its value is
\* abstracted to the sequence of inputs it has absorbed
StateArray(h) == [kind |-> "ndarray", hist |-> h, w |-> NaN]
\* an ndarray holding a log-weight (mutable: += works in place)
WeightArray(x) == [kind |-> "ndarray", hist |-> <<>>, w |-> x]
\* a Python float / np.float64 holding a log-weight (immutable)
WeightFloat(x) == [kind |-> "float", hist |-> <<>>, w |-> x]

Live(ps) == UNION {{ps[i].acc, ps[i].Ccc, ps[i].alpha, ps[i].logweight} : i \in DOMAIN ps}
\* A particle-and-heap state is st = [ps |-> the sequence of particles,
\* hp |-> the heap, nx |-> the address the next new object gets].
State(ps, hp) == [ps |-> ps, hp |-> hp, nx |-> Cardinality(Live(ps)) + 1]
\* the references of a population in a fixed order, particle by particle
Refs(ps) ==
    [j \in 1..(4 * Len(ps)) |->
        LET r == ps[(j + 3) \div 4]
            f == j % 4
        IN CASE f = 1 -> r.acc [] f = 2 -> r.Ccc [] f = 3 -> r.alpha [] OTHER -> r.logweight]
\* the distinct addresses of R[j..], after those of seen, in order of
\* first occurrence
RECURSIVE Distinct(_, _, _)
Distinct(R, j, seen) ==
    IF j > Len(R) THEN seen
    ELSE Distinct(R, j + 1,
                  IF \E m \in DOMAIN seen : seen[m] = R[j] THEN seen ELSE Append(seen, R[j]))
\* Objects no particle references are reclaimed, and the live ones are
\* renumbered in the order the population first refers to them.  Addresses
\* are not observable by the program; which references are equal is kept.
Collect(ps, hp) ==
    LET D == Distinct(Refs(ps), 1, <<>>)
        rank == [a \in {D[m] : m \in DOMAIN D} |-> CHOOSE m \in DOMAIN D : D[m] = a]
    IN [ps |-> [i \in DOMAIN ps |->
                   [acc |-> rank[ps[i].acc], Ccc |-> rank[ps[i].Ccc],
                    alpha |-> rank[ps[i].alpha], logweight |-> rank[ps[i].logweight]]],
        hp |-> [b \in Addr |-> IF b <= Len(D) THEN hp[D[b]] ELSE FreeCell],
        nx |-> Len(D) + 1]

\* np.array([particle.logweight for particle in self.particles])
lweights(ps, hp) == [i \in DOMAIN ps |-> hp[ps[i].logweight].w]

----------------------------------------------------------------------------
(* LangevinParticle.                                                       *)

\* LangevinParticle.__init__ for the i-th particle created: three new
\* arrays and self.logweight = 0.
NewParticle(i) ==
    [acc |-> 4 * i - 3, Ccc |-> 4 * i - 2, alpha |-> 4 * i - 1, logweight |-> 4 * i]

InitialHeap(n) ==
    [a \in Addr |->
        IF a > 4 * n THEN FreeCell
        ELSE IF a % 4 = 0 THEN WeightFloat(Fin(1, 1))
        ELSE StateArray(<<>>)]

\* predict(s, t): binds self.alpha to a new array and returns (acp, Ccp);
\* self.acc and self.Ccc are read, not written.
predict(st, i, s, t) ==
    LET p == st.ps[i]
        a == st.nx
    IN [st  |-> [ps |-> [st.ps EXCEPT ![i].alpha = a],
                 hp |-> [st.hp EXCEPT ![a] = StateArray(Append(st.hp[p.alpha].hist, <<s, t>>))],
                 nx |-> a + 1],
        acp |-> [hist |-> st.hp[p.acc].hist, s |-> s, t |-> t],
        Ccp |-> [hist |-> st.hp[p.Ccc].hist, s |-> s, t |-> t]]

\* correct(observation, acp, Ccp): returns new arrays (acc, Ccc)
correct(observation, acp, Ccp) ==
    [acc |-> Append(acp.hist, <<observation, acp.s, acp.t>>),
     Ccc |-> Append(Ccp.hist, <<Ccp.s, Ccp.t>>)]

\* log_ped(observation, acp, Ccp): the log Gaussian density of the
\* observation, a new array.  Its value depends on matrices of the
\* state-space model (not part of the engine); z selects it: a density
\* that underflows to zero, a smaller one, a larger one.
log_ped(z) ==
    CASE z = 0 -> NegInf
      [] z = 1 -> Fin(4, 5)
      [] OTHER -> Fin(1, 1)

\* increment writing the corrected mean and covariance into the arrays
\* the particle already holds (self.acc[:] = ..., self.Ccc[:] = ...)
increment_in_place(st, i, observation, s, t, z) ==
    LET pr  == predict(st, i, s, t)
        st1 == pr.st
        co  == correct(observation, pr.acp, pr.Ccp)
        old == st1.hp[st1.ps[i].logweight]
        aLw == IF old.kind = "ndarray" THEN st1.ps[i].logweight ELSE st1.nx
    IN [ps |-> [st1.ps EXCEPT ![i].logweight = aLw],
        hp |-> [st1.hp EXCEPT ![st1.ps[i].acc] = StateArray(co.acc),
                              ![st1.ps[i].Ccc] = StateArray(co.Ccc),
                              ![aLw] = WeightArray(LAdd(old.w, log_ped(z)))],
        nx |-> st1.nx + 1]

\* increment(observation, s, t) on particle i, with random outcome z
increment(st, i, observation, s, t, z) ==
    LET pr  == predict(st, i, s, t)
        st1 == pr.st
        co  == correct(observation, pr.acp, pr.Ccp)
        \* self.acc, self.Ccc = ...: two new arrays
        aAcc == st1.nx
        aCcc == st1.nx + 1
        \* self.logweight += ...: in place when self.logweight is an ndarray,
        \* a new ndarray when it is a float
        old  == st1.hp[st1.ps[i].logweight]
        aLw  == IF old.kind = "ndarray" THEN st1.ps[i].logweight ELSE st1.nx + 2
    IN [ps |-> [st1.ps EXCEPT ![i].acc = aAcc, ![i].Ccc = aCcc, ![i].logweight = aLw],
        hp |-> [st1.hp EXCEPT ![aAcc] = StateArray(co.acc),
                              ![aCcc] = StateArray(co.Ccc),
                              ![aLw]  = WeightArray(LAdd(old.w, log_ped(z)))],
        nx |-> st1.nx + 3]

----------------------------------------------------------------------------
(* RBPF: the methods as functions of the engine's state.                   *)

\* for particle in self.particles: particle.increment(...)
RECURSIVE IncrementFrom(_, _, _, _, _, _)
IncrementFrom(st, i, observation, s, t, zs) ==
    IF i > Len(st.ps) THEN st
    ELSE IncrementFrom(increment(st, i, observation, s, t, zs[i]), i + 1,
                       observation, s, t, zs)

\* increment_particles reading prev_time after the cursor has advanced
increment_particles_late_prev_time(zs) ==
    IF pricegen >= nobservations \/ timegen >= nobservations
    THEN [exc |-> "StopIteration", pricegen |-> pricegen, timegen |-> timegen,
          current_price |-> current_price, current_time |-> current_time,
          ps |-> particles, hp |-> heap]
    ELSE LET price == prices[pricegen + 1]
             time == times[timegen + 1]
             inc == IncrementFrom(State(particles, heap), 1, price, time, time, zs)
             st == Collect(inc.ps, inc.hp)
         IN [exc |-> "none", pricegen |-> pricegen + 1, timegen |-> timegen + 1,
             current_price |-> price, current_time |-> time,
             ps |-> st.ps, hp |-> st.hp]

\* increment_particles over a cursor that stays on the last observation
\* once the series is used up, instead of raising
increment_particles_unguarded(zs) ==
    LET at == IF pricegen >= nobservations THEN nobservations ELSE pricegen + 1
        price == prices[at]
        prev_time == current_time
        time == times[at]
        inc == IncrementFrom(State(particles, heap), 1, price, prev_time, time, zs)
        st == Collect(inc.ps, inc.hp)
    IN [exc |-> "none", pricegen |-> at, timegen |-> at,
        current_price |-> price, current_time |-> time,
        ps |-> st.ps, hp |-> st.hp]

\* increment_particles.  generator.__next__() raises StopIteration once
\* the series is used up; the statements run in the order of the source.
increment_particles(zs) ==
    IF pricegen >= nobservations
    THEN [exc |-> "StopIteration", pricegen |-> pricegen, timegen |-> timegen,
          current_price |-> current_price, current_time |-> current_time,
          ps |-> particles, hp |-> heap]
    ELSE IF timegen >= nobservations
    THEN [exc |-> "StopIteration", pricegen |-> pricegen + 1, timegen |-> timegen,
          current_price |-> prices[pricegen + 1], current_time |-> current_time,
          ps |-> particles, hp |-> heap]
    ELSE LET price == prices[pricegen + 1]
             prev_time == current_time
             time == times[timegen + 1]
             inc == IncrementFrom(State(particles, heap), 1, price, prev_time, time, zs)
             st == Collect(inc.ps, inc.hp)
         IN [exc |-> "none", pricegen |-> pricegen + 1, timegen |-> timegen + 1,
             current_price |-> price, current_time |-> time,
             ps |-> st.ps, hp |-> st.hp]

\* particle.logweight = particle.logweight - sum_weights, particle by
\* particle: ndarray - float64 is a new ndarray, float - float64 a new float
RECURSIVE ReweightFrom(_, _, _)
ReweightFrom(st, i, sum_weights) ==
    IF i > Len(st.ps) THEN st
    ELSE LET old == st.hp[st.ps[i].logweight]
             new == [old EXCEPT !.w = LSub(old.w, sum_weights)]
         IN ReweightFrom([ps |-> [st.ps EXCEPT ![i].logweight = st.nx],
                          hp |-> [st.hp EXCEPT ![st.nx] = new],
                          nx |-> st.nx + 1],
                         i + 1, sum_weights)

reweight_particles(ps, hp) ==
    LET sum_weights == logsumexp(lweights(ps, hp))
        st == ReweightFrom(State(ps, hp), 1, sum_weights)
    IN Collect(st.ps, st.hp)


\* probabilites = np.nan_to_num(np.exp(lweights)); NaN becomes 0.  (+inf
\* would become the largest double; no weight of this model is +inf.)
nan_to_num(v) == IF v.k = "nan" THEN Num(0, 1) ELSE v

\* probabilites / np.sum(probabilites)
probabilites(ps, hp) ==
    LET raw == [i \in DOMAIN ps |-> nan_to_num(Exp(lweights(ps, hp)[i]))]
        total == NumSum(raw)
    IN [i \in DOMAIN ps |-> NumDiv(raw[i], total)]

\* np.random.multinomial rejects a probability vector that holds a NaN or
\* a value outside [0, 1] with ValueError
ValidPvals(pv) == \A i \in DOMAIN pv : pv[i].k = "num" /\ pv[i].p <= pv[i].q

RECURSIVE SumCounts(_, _)
SumCounts(sel, i) == IF i = 0 THEN 0 ELSE sel[i] + SumCounts(sel, i - 1)

\* the count vectors np.random.multinomial(n, pv) can return: n draws in
\* all, none of them on an index of probability zero
multinomial(n, pv) ==
    {sel \in [DOMAIN pv -> 0..n] :
        /\ SumCounts(sel, Len(pv)) = n
        /\ \A i \in DOMAIN pv : pv[i].p = 0 => sel[i] = 0}

\* new_particles: for idx in range(N), selections[idx] shallow copies of
\* particles[idx] (copy.copy: the copy holds the same four references)
RECURSIVE Copies(_, _)
Copies(particle, n) == IF n = 0 THEN <<>> ELSE <<particle>> \o Copies(particle, n - 1)

RECURSIVE NewParticles(_, _, _, _)
NewParticles(ps, selections, idx, n) ==
    IF idx > n THEN <<>>
    ELSE Copies(ps[idx], selections[idx]) \o NewParticles(ps, selections, idx + 1, n)

\* for particle in self.particles: particle.logweight = -np.log(self.N)
RECURSIVE ResetFrom(_, _, _)
ResetFrom(st, i, n) ==
    IF i > Len(st.ps) THEN st
    ELSE ResetFrom([ps |-> [st.ps EXCEPT ![i].logweight = st.nx],
                    hp |-> [st.hp EXCEPT ![st.nx] = WeightFloat(LNeg(Fin(n, 1)))],
                    nx |-> st.nx + 1],
                   i + 1, n)

\* resample_particles without its last loop: the offspring keep the
\* log-weight of their parent
resample_particles_keep_weights(ps, hp, selections) ==
    LET new_particles == NewParticles(ps, selections, 1, N)
    IN Collect(new_particles, hp)

\* resample_particles once the multinomial draw returned `selections`
resample_particles(ps, hp, selections) ==
    LET new_particles == NewParticles(ps, selections, 1, N)
        st == ResetFrom(Collect(new_particles, hp), 1, N)
    IN Collect(st.ps, st.hp)

\* get_logPn2 without the negation
get_logPn2_not_negated(ps, hp) ==
    Log(NumSum([i \in DOMAIN ps |-> Exp(LDouble(lweights(ps, hp)[i]))]))

\* -np.log(np.sum(np.exp(2*lweights)))
get_logPn2(ps, hp) ==
    LNeg(Log(NumSum([i \in DOMAIN ps |-> Exp(LDouble(lweights(ps, hp)[i]))])))

\* -np.max(lweights)
get_logDninf(ps, hp) == LNeg(LMax(lweights(ps, hp)))

\* the predictive likelihood taken from the weights once normalised
get_log_predictive_likelihood_normalised(ps, hp) ==
    LET st == reweight_particles(ps, hp) IN logsumexp(lweights(st.ps, st.hp))

get_log_predictive_likelihood(ps, hp) == logsumexp(lweights(ps, hp))

\* np.log(self.N / epsilon)
LogResampleLimit_divided(n, epsilon) == Fin(n * epsilon[2], epsilon[1])

\* np.log(self.N * epsilon)
LogResampleLimit(n, epsilon) == Fin(n * epsilon[1], epsilon[2])

----------------------------------------------------------------------------
(* The engine as a state machine.                                          *)

NoResult == [k |-> "none", p |-> 0, q |-> 0]

\* RBPF.__init__
Init ==
    /\ N \in 1..MaxN
    /\ nobservations \in 2..MaxObs
    /\ \E epsilon \in EpsilonValues : log_resample_limit = LogResampleLimit(N, epsilon)
    /\ timegen = 1
    /\ pricegen = 1
    /\ current_time = 0
    /\ current_price = 0
    /\ log_marginal_likelihood = Fin(1, 1)
    /\ particles = [i \in 1..N |-> NewParticle(i)]
    /\ heap = InitialHeap(N)
    /\ pc = "ready"
    /\ step = 0
    /\ outcome = "constructed"
    /\ result = NoResult
    /\ phases = <<>>
    /\ collapsed = FALSE

AllZero(ps, hp) == \A i \in DOMAIN ps : hp[ps[i].logweight].w.k = "ninf"

\* the draws one increment_particles call makes: one per particle, none
\* when the generator raises before any particle is touched
DrawsOfCall ==
    IF pricegen >= nobservations \/ timegen >= nobservations
    THEN {[i \in 1..N |-> 0]}
    ELSE [1..N -> Draws]

config == <<N, nobservations, log_resample_limit>>
cursor == <<timegen, pricegen, current_time, current_price>>
call   == <<pc, step, result, phases, collapsed>>

\* a call of increment_particles from outside run_filter
IncrementParticles ==
    /\ pc = "ready"
    /\ \E zs \in DrawsOfCall :
         LET r == increment_particles(zs) IN
         /\ pricegen' = r.pricegen
         /\ timegen' = r.timegen
         /\ current_price' = r.current_price
         /\ current_time' = r.current_time
         /\ particles' = r.ps
         /\ heap' = r.hp
         /\ outcome' = IF r.exc = "none" THEN "increment_particles" ELSE r.exc
    /\ UNCHANGED <<config, log_marginal_likelihood, call>>

\* a call of reweight_particles from outside run_filter
ReweightParticles ==
    /\ pc = "ready"
    /\ LET st == reweight_particles(particles, heap) IN
         /\ particles' = st.ps
         /\ heap' = st.hp
    /\ outcome' = "reweight_particles"
    /\ UNCHANGED <<config, cursor, log_marginal_likelihood, call>>

\* a call of resample_particles from outside run_filter
ResampleParticles ==
    /\ pc = "ready"
    /\ LET pv == probabilites(particles, heap) IN
         IF ValidPvals(pv)
         THEN \E selections \in multinomial(N, pv) :
                LET st == resample_particles(particles, heap, selections) IN
                /\ particles' = st.ps
                /\ heap' = st.hp
                /\ outcome' = "resample_particles"
         ELSE /\ outcome' = "ValueError"
              /\ UNCHANGED <<particles, heap>>
    /\ UNCHANGED <<config, cursor, log_marginal_likelihood, call>>


(* run_filter(ret_history=False), one action per statement of its loop.    *)
(* The engine is single-threaded: no other method runs while pc # "ready". *)

\* run_filter is called; range(self.nobservations - 1) is fixed here
RunFilter ==
    /\ pc = "ready"
    /\ pc' = "rf_loop"
    /\ step' = 0
    /\ outcome' = "running"
    /\ phases' = <<>>
    /\ collapsed' = FALSE
    /\ UNCHANGED <<config, cursor, log_marginal_likelihood, particles, heap, result>>

\* the next iteration begins: self.increment_particles()
RF_Increment ==
    /\ pc = "rf_loop"
    /\ step < nobservations - 1
    /\ \E zs \in DrawsOfCall :
         LET r == increment_particles(zs) IN
         /\ pricegen' = r.pricegen
         /\ timegen' = r.timegen
         /\ current_price' = r.current_price
         /\ current_time' = r.current_time
         /\ particles' = r.ps
         /\ heap' = r.hp
         /\ IF r.exc = "none"
            THEN /\ pc' = "rf_accumulate"
                 /\ outcome' = outcome
                 /\ step' = step
                 /\ phases' = <<"increment_particles">>
                 /\ collapsed' = (collapsed \/ AllZero(r.ps, r.hp))
            ELSE \* the exception leaves run_filter
                 /\ pc' = "ready"
                 /\ outcome' = r.exc
                 /\ step' = 0
                 /\ phases' = <<>>
                 /\ collapsed' = FALSE
    /\ UNCHANGED <<config, log_marginal_likelihood, result>>

\* self.log_marginal_likelihood += self.get_log_predictive_likelihood()
RF_Accumulate ==
    /\ pc = "rf_accumulate"
    /\ log_marginal_likelihood' =
         LAdd(log_marginal_likelihood, get_log_predictive_likelihood(particles, heap))
    /\ pc' = "rf_reweight"
    /\ phases' = Append(phases, "get_log_predictive_likelihood")
    /\ UNCHANGED <<config, cursor, particles, heap, step, outcome, result, collapsed>>

\* self.reweight_particles()
RF_Reweight ==
    /\ pc = "rf_reweight"
    /\ LET st == reweight_particles(particles, heap) IN
         /\ particles' = st.ps
         /\ heap' = st.hp
    /\ pc' = "rf_check"
    /\ phases' = Append(phases, "reweight_particles")
    /\ UNCHANGED <<config, cursor, log_marginal_likelihood, step, outcome, result, collapsed>>

\* if self.get_logDninf() < self.log_resample_limit:
RF_Check ==
    /\ pc = "rf_check"
    /\ IF LLess(get_logDninf(particles, heap), log_resample_limit)
       THEN /\ pc' = "rf_resample"
            /\ step' = step
       ELSE /\ pc' = "rf_loop"
            /\ step' = step + 1
    /\ phases' = Append(phases, "get_logDninf")
    /\ UNCHANGED <<config, cursor, log_marginal_likelihood, particles, heap, outcome,
                   result, collapsed>>

\* self.resample_particles()
RF_Resample ==
    /\ pc = "rf_resample"
    /\ LET pv == probabilites(particles, heap) IN
         IF ValidPvals(pv)
         THEN \E selections \in multinomial(N, pv) :
                LET st == resample_particles(particles, heap, selections) IN
                /\ particles' = st.ps
                /\ heap' = st.hp
                /\ pc' = "rf_loop"
                /\ step' = step + 1
                /\ outcome' = outcome
                /\ phases' = Append(phases, "resample_particles")
                /\ collapsed' = collapsed
         ELSE \* the exception leaves run_filter
              /\ pc' = "ready"
              /\ outcome' = "ValueError"
              /\ step' = 0
              /\ phases' = <<>>
              /\ collapsed' = FALSE
              /\ UNCHANGED <<particles, heap>>
    /\ UNCHANGED <<config, cursor, log_marginal_likelihood, result>>

\* the loop is over: return self.log_marginal_likelihood
RF_Return ==
    /\ pc = "rf_loop"
    /\ step >= nobservations - 1
    /\ result' = log_marginal_likelihood
    /\ outcome' = "returned"
    /\ pc' = "ready"
    /\ phases' = <<>>
    /\ collapsed' = FALSE
    /\ UNCHANGED <<config, cursor, log_marginal_likelihood, particles, heap, step>>

Next ==
    \/ IncrementParticles
    \/ ReweightParticles
    \/ ResampleParticles
    \/ RunFilter
    \/ RF_Increment
    \/ RF_Accumulate
    \/ RF_Reweight
    \/ RF_Check
    \/ RF_Resample
    \/ RF_Return

Spec == Init /\ [][Next]_vars

----------------------------------------------------------------------------
(* Properties.                                                             *)

\* log-weight of the i-th particle of the population
LogWeight(i) == heap[particles[i].logweight].w
\* sum over the particles of exp(log-weight)
SumOfWeights == NumSum([i \in DOMAIN particles |-> Exp(LogWeight(i))])
Normalised == SumOfWeights = Num(1, 1)
\* the last method run_filter called in its current iteration
LastPhase == IF phases = <<>> THEN "none" ELSE phases[Len(phases)]
\* resample_particles has just returned, to an outside caller or to run_filter
ResampleReturned ==
    \/ pc = "ready" /\ outcome = "resample_particles"
    \/ pc = "rf_loop" /\ LastPhase = "resample_particles"

\* C1: whenever resample_particles returns, after any sequence of calls,
\* the population holds exactly N particles and every log-weight is
\* -log(N), whatever count vector the multinomial draw returned.
C1_ResampleKeepsNAndResetsWeights ==
    ResampleReturned =>
        /\ Len(particles) = N
        /\ \A i \in DOMAIN particles : LogWeight(i) = LNeg(Fin(N, 1))

\* C1 witness: resample_particles returned a population in which one parent
\* was drawn twice (two particles hold the same arrays, so another parent
\* was drawn zero times), after observations were filtered.
C1_Witness ==
    /\ ResampleReturned
    /\ pricegen > 1
    /\ \E i, j \in DOMAIN particles : i # j /\ particles[i].acc = particles[j].acc
    /\ \A i \in DOMAIN particles : LogWeight(i) = LNeg(Fin(N, 1))


\* reweight_particles has just returned, to an outside caller or to run_filter
ReweightReturned ==
    \/ pc = "ready" /\ outcome = "reweight_particles"
    \/ pc = "rf_check"

\* C2: after every call of reweight_particles the weights sum to one, and
\* a second consecutive call leaves every log-weight unchanged.
C2_ReweightNormalisesAndIsIdempotent ==
    ReweightReturned =>
        /\ Normalised
        /\ LET again == reweight_particles(particles, heap)
           IN lweights(again.ps, again.hp) = lweights(particles, heap)

\* what particle j holds: the values of its mean, covariance and state
\* sample, and its log-weight
View(ps, hp, j) ==
    <<hp[ps[j].acc].hist, hp[ps[j].Ccc].hist, hp[ps[j].alpha].hist, hp[ps[j].logweight].w>>

\* C3: for any two particles of the population (two copies of one parent
\* included), an increment of one of them, whatever its random outcome,
\* leaves the mean, covariance, state sample and log-weight of the other
\* unchanged.
C3_IncrementLeavesOtherParticlesAlone ==
    \A i, j \in DOMAIN particles : \A z \in Draws :
        i # j =>
            LET st == increment(State(particles, heap), i, current_price,
                                current_time, current_time + 1, z)
            IN View(st.ps, st.hp, j) = View(particles, heap, j)

\* C3 witness: resample_particles returned to its caller two copies of one
\* parent that has filtered an observation: they hold the same three arrays.
C3_Witness ==
    /\ pc = "ready"
    /\ outcome = "resample_particles"
    /\ \E i, j \in DOMAIN particles :
         /\ i # j
         /\ particles[i].acc = particles[j].acc
         /\ particles[i].Ccc = particles[j].Ccc
         /\ particles[i].alpha = particles[j].alpha
         /\ heap[particles[i].acc].hist # <<>>

C5_CollapseFailsFast ==
    [][/\ (AllZero(particles, heap) /\ (ResampleParticles \/ RF_Resample))
            => (outcome' = "ValueError" /\ particles' = particles /\ heap' = heap)
       /\ ~(collapsed' /\ pc' = "rf_loop")]_vars

\* the observations and intervals a particle has filtered when the whole
\* series of n observations has been swept: observation k+1 with the
\* interval from time k to time k+1, for k = 1..n-1
SweptHistory(n) == [k \in 1..(n - 1) |-> <<prices[k + 1], times[k], times[k + 1]>>]

\* C6: when run_filter returns it has made exactly nobservations-1
\* iterations, every particle has filtered observations 2..T in order, each
\* with the interval from the previous observation, the first observation
\* was given to no particle, and the value returned is the accumulated log
\* marginal likelihood.
C6_RunFilterSweepsTheSeriesOnce ==
    (pc = "ready" /\ outcome = "returned") =>
        /\ step = nobservations - 1
        /\ pricegen = nobservations
        /\ timegen = nobservations
        /\ \A i \in DOMAIN particles : heap[particles[i].acc].hist = SweptHistory(nobservations)
        /\ result = log_marginal_likelihood

\* C6 witness: run_filter returned from a sweep of at least two iterations
\* over several particles, one of which resampled.
C6_Witness ==
    /\ pc = "ready"
    /\ outcome = "returned"
    /\ nobservations >= 3
    /\ N >= 2
    /\ \E i, j \in DOMAIN particles : i # j /\ particles[i].alpha = particles[j].alpha

\* C7: a call of increment_particles made when the series is used up (from
\* outside or from run_filter) raises and leaves the cursor, every particle
\* and the log marginal likelihood unchanged.
C7_AdvancePastTheEndIsGuarded ==
    [][(pricegen >= nobservations /\ (IncrementParticles \/ RF_Increment))
          => /\ outcome' = "StopIteration"
             /\ pc' = "ready"
             /\ UNCHANGED <<cursor, particles, heap, log_marginal_likelihood>>]_vars

\* C7 witness: an advance past the end was attempted and raised.
C7_Witness ==
    /\ pc = "ready"
    /\ outcome = "StopIteration"
    /\ pricegen = nobservations

\* the value v of an ESS accessor lies in [0, log N], and is log N only
\* when all weights are equal
EssInRange(v) ==
    /\ LLeq(Fin(1, 1), v)
    /\ LLeq(v, Fin(N, 1))
    /\ (v = Fin(N, 1)) => \A i, j \in DOMAIN particles : LogWeight(i) = LogWeight(j)

\* C8 as claimed: in every state in which an accessor can be called, both
\* ESS accessors return a value in [0, log N], log N only for equal weights.
C8_EssAlwaysInRange ==
    pc = "ready" =>
        /\ EssInRange(get_logPn2(particles, heap))
        /\ EssInRange(get_logDninf(particles, heap))

\* C8 amended: in every state in which the weights sum to one, both ESS
\* accessors return a value in [0, log N], log N only for equal weights.
C8_EssInRangeWhenNormalised ==
    Normalised =>
        /\ EssInRange(get_logPn2(particles, heap))
        /\ EssInRange(get_logDninf(particles, heap))

\* C8 witness: normalised weights that are not all equal, after a reweight.
C8_Witness ==
    /\ pc = "ready"
    /\ outcome = "reweight_particles"
    /\ Normalised
    /\ \E i, j \in DOMAIN particles : LogWeight(i) # LogWeight(j)
    /\ LLess(Fin(1, 1), get_logPn2(particles, heap))
    /\ LLess(get_logDninf(particles, heap), Fin(N, 1))

\* C9: inside run_filter an iteration advances and increments first; the
\* next statement adds the log-sum-exp of the weights as they are (not yet
\* normalised) to the log marginal likelihood and changes no particle; the
\* next one normalises; the degeneracy proxy is then taken on the
\* normalised weights and resample_particles runs next exactly when
\* -max(log-weight) < log(N*epsilon), and at no other point.
C9_PhaseOrder ==
    [][/\ (pc = "rf_loop" /\ pc' # "ready")
            => (pc' = "rf_accumulate" /\ pricegen' = pricegen + 1)
       /\ pc = "rf_accumulate"
            => /\ pc' = "rf_reweight"
               /\ log_marginal_likelihood' =
                    LAdd(log_marginal_likelihood, logsumexp(lweights(particles, heap)))
               /\ UNCHANGED <<particles, heap>>
       /\ pc = "rf_reweight"
            => /\ pc' = "rf_check"
               /\ lweights(particles', heap') =
                    [i \in DOMAIN particles |->
                        LSub(LogWeight(i), logsumexp(lweights(particles, heap)))]
               /\ UNCHANGED log_marginal_likelihood
       /\ pc = "rf_check"
            => /\ (pc' = "rf_resample") <=>
                    LLess(LNeg(LMax(lweights(particles, heap))), log_resample_limit)
               /\ pc' \in {"rf_resample", "rf_loop"}
               /\ UNCHANGED <<particles, heap, log_marginal_likelihood>>
       /\ pc' = "rf_resample" => pc = "rf_check"
       /\ pc = "rf_resample" => (pc' = "rf_loop" /\ ResampleReturned')]_vars

\* C9 witness: the second iteration of a sweep has called the four methods
\* in order on weights that are all positive and not all equal, and the
\* proxy fell below the limit: resample_particles is the next statement.
C9_Witness ==
    /\ pc = "rf_resample"
    /\ step = 1
    /\ phases = <<"increment_particles", "get_log_predictive_likelihood",
                  "reweight_particles", "get_logDninf">>
    /\ \A i \in DOMAIN particles : LogWeight(i).k = "fin"
    /\ \E i, j \in DOMAIN particles : LogWeight(i) # LogWeight(j)
    /\ LLess(get_logDninf(particles, heap), log_resample_limit)

\* C10: at the start of every iteration of run_filter that has an
\* observation to filter, the first included, the weights sum to one.
C10_NormalisedAtStepStart ==
    (pc = "rf_loop" /\ step < nobservations - 1 /\ pricegen < nobservations) => Normalised

=============================================================================
